---- MODULE Spec2Model ----
(***************************************************************************)
(* Sign-In-With-Ethereum authentication of aura-sign-mvp: the Challenge    *)
(* Store (nonces), the Signature Verifier, the iron-session cookie and the *)
(* demo-site API handlers /api/auth/{message,verify,session,signout}.      *)
(*                                                                         *)
(* A verify request is modelled with one step per `await` of the code, so  *)
(* that requests interleave exactly where the Node event loop lets them.   *)
(***************************************************************************)
EXTENDS Integers, FiniteSets, Sequences, TLC

(* ------------------------------ bounds --------------------------------- *)
TickStep == 150        \* seconds the clock advances per Tick
MaxTicks == 2          \* times the clock advances in one run

(* -------------------------- program constants -------------------------- *)
TTL == 300             \* redis.setex(`nonce:..`, 300, ..)
DefaultChainId == 1    \* session.chainId = 1

Addr    == {"0xa1", "0xb2"}      \* wallet addresses
Signers == {"0xa1"}              \* the addresses whose key the clients hold
NoSignature == ""                \* a verify body without a signature
Chain   == {5}
Clients == {"c1"}                \* browsers, each with one cookie jar
Slots   == {1, 2}                \* verify requests that can be in flight
Nonces  == {"n1"}                \* the values randomBytes(32) can return
UnknownNonce == "n0"             \* a nonce the server never issued

(* ------------------------------ messages ------------------------------- *)
\* An EIP-4361 message as the client submits it.  exp is the set holding the
\* optional expirationTime.
SiweMsg(a, c, n, e) ==
  [form |-> "siwe", address |-> a, chainId |-> c, nonce |-> n, exp |-> e]
EmptyMsg     == [form |-> "empty", address |-> "", chainId |-> 0, nonce |-> "", exp |-> {}]
MalformedMsg == [form |-> "malformed", address |-> "", chainId |-> 0, nonce |-> "", exp |-> {}]
Messages ==
  {EmptyMsg, MalformedMsg} \cup
  {SiweMsg(a, c, n, e) : a \in Addr, c \in Chain, n \in Nonces \cup {UnknownNonce}, e \in {{}, {TickStep}}}

(* ------------------------------ sessions ------------------------------- *)
\* Session data is a JS object: a function from the names of its defined
\* properties to their values.
EmptyData == [f \in {} |-> 0]
Truthy(s) == "isAuthenticated" \in DOMAIN s /\ s.isAuthenticated

NoCookie     == [kind |-> "none", data |-> EmptyData]
BadSeal      == [kind |-> "badSeal", data |-> EmptyData]
BadFormat    == [kind |-> "badFormat", data |-> EmptyData]
Sealed(d)    == [kind |-> "sealed", data |-> d]
AuthData(a, c) == [address |-> a, chainId |-> c, isAuthenticated |-> TRUE]
DefaultData  == [address |-> "", chainId |-> DefaultChainId, isAuthenticated |-> FALSE]

(* ------------------------- Challenge Store ----------------------------- *)
\* One Redis key per nonce; stored is FALSE until the nonce is issued.
NoNonce == [stored |-> FALSE, used |-> FALSE, created |-> 0]

\* redis.setex(`nonce:${nonce}`, 300, {used: false, created: Date.now()})
storeNonce(db, n, t) ==
  [db EXCEPT ![n] = [stored |-> TRUE, used |-> FALSE, created |-> t]]

\* The key is gone once its 300 seconds have elapsed.
Expired(rec, t) == t >= rec.created + TTL

\* (variant: a store whose keys never expire)
getNonceFromDB_NoExpiry(db, n, t) ==
  IF n \in Nonces /\ db[n].stored THEN {db[n]} ELSE {}
\* getNonceFromDB(nonce): the set holding the stored record, {} for null
getNonceFromDB(db, n, t) ==
  IF n \in Nonces /\ db[n].stored /\ ~Expired(db[n], t) THEN {db[n]} ELSE {}

\* if (!nonce || nonce.used) throw new Error('Invalid or used nonce')
NonceInvalid(found) == found = {} \/ \E rec \in found : rec.used

\* (variant: the write of the used flag is lost)
markNonceAsUsed_Lost(db, n) == db
\* markNonceAsUsed(nonce)
markNonceAsUsed(db, n) == [db EXCEPT ![n].used = TRUE]

(* ------------------------ Signature Verifier --------------------------- *)
ErrMalformed == "Invalid message"
ErrNonce     == "Invalid or used nonce"
ErrExpired   == "Expired message"
ErrMismatch  == "Signature does not match address of the message"
ErrRequired  == "Message and signature are required"
ErrGeneric   == "Verification failed"
ErrUnseal    == "Wrong mac prefix"

\* new SiweMessage(message) throws on a string that is not EIP-4361
ParseFails(msg) == msg.form # "siwe"

\* (variant: the recovered address is not compared with the claimed one)
siweVerify_NoRecover(msg, signer, t) ==
  IF \E e \in msg.exp : t >= e THEN ErrExpired ELSE ""
\* siweMessage.verify({signature}): "" when it resolves, else the error it
\* rejects with.  signer is the address recovered from the signature.
siweVerify(msg, signer, t) ==
  IF \E e \in msg.exp : t >= e THEN ErrExpired
  ELSE IF signer # msg.address THEN ErrMismatch
  ELSE ""

\* auraAuth.verify wraps the verifier: a throw becomes {success:false, error}
\* (address "" / chainId 0 / error "" stand for an undefined property)
VerifyFailed(reason) ==
  [success |-> FALSE, address |-> "", chainId |-> 0, error |-> reason]
VerifyOk(msg) ==
  [success |-> TRUE, address |-> msg.address, chainId |-> msg.chainId, error |-> ""]
NoResult == VerifyFailed("")

(* -------------------------- Session Manager ---------------------------- *)
\* getIronSession(req, res, sessionConfig): the data unsealed from the
\* request's cookie.  iron-session starts an empty session for a missing
\* cookie and for a seal that fails its integrity check or has expired
\* ("Bad hmac value", "Expired seal", ...: kind "badSeal"); any other unseal
\* error ("Wrong mac prefix", "Invalid expiration": kind "badFormat") is
\* rethrown, and getSession has no try/catch around the call.
CanUnseal(cookie) == cookie.kind # "badFormat"
getIronSession(cookie) ==
  IF cookie.kind = "sealed" THEN cookie.data ELSE EmptyData

\* (variants: the test of line 46 dropped; line 47 assigning true)
getSession_AlwaysDefault(cookie) == DefaultData
getSession_DefaultsTrue(cookie) ==
  LET session == getIronSession(cookie) IN
  IF ~Truthy(session) THEN [DefaultData EXCEPT !.isAuthenticated = TRUE] ELSE session
\* (variant: only line 47, the address and chainId are left as unsealed)
getSession_KeepsFields(cookie) ==
  LET session == getIronSession(cookie) IN
  IF ~Truthy(session)
    THEN [f \in DOMAIN session \cup {"isAuthenticated"} |->
            IF f = "isAuthenticated" THEN FALSE ELSE session[f]]
    ELSE session
\* getSession lines 46-50: default shape unless authenticated
getSession(cookie) ==
  LET session == getIronSession(cookie) IN
  IF ~Truthy(session) THEN DefaultData ELSE session

\* auraAuth.updateSession(session, address, chainId) then session.save()
updateSession(session, a, c) ==
  Sealed([session EXCEPT !.address = a, !.chainId = c, !.isAuthenticated = TRUE])

\* (variant: the session is saved instead of cleared)
destroy_Saves(session) == Sealed(session)
\* session.destroy(): the cookie is cleared
destroy(session) == NoCookie

(* --------------------------- HTTP responses ---------------------------- *)
NoResp == [status |-> 0, body |-> EmptyData]
Resp(st, b) == [status |-> st, body |-> b]

\* POST /api/auth/message, lines 21-23: if (!address) return 400
AddressMissing(a) == a = ""
RespAddressRequired == Resp(400, [error |-> "Address is required"])

\* (variant: the body check dropped)
BodyIncomplete_Never(m, k) == FALSE
\* POST /api/auth/verify, line 234: if (!message || !signature)
BodyIncomplete(m, k) == m.form = "empty" \/ k = NoSignature
\* POST /api/auth/verify, lines 234-238
RespRequired == Resp(400, [error |-> ErrRequired])
\* (variant: the handler goes on to the session whatever the result)
Rejects_Nothing(result) == FALSE
\* line 242: if (!result.success) return res.status(400)...
Rejects(result) == ~result.success
\* lines 242-247
RespVerifyFailed(result) == Resp(400, [success |-> FALSE, error |-> result.error])
\* lines 256-263
RespVerifyOk(result) ==
  Resp(200, [success |-> TRUE,
             session |-> AuthData(result.address, result.chainId)])
\* lines 264-270
RespVerify500 == Resp(500, [success |-> FALSE, error |-> ErrGeneric])

\* GET /api/auth/session
AddressOr(s) == IF "address" \in DOMAIN s THEN s.address ELSE ""
ChainOr(s) == IF "chainId" \in DOMAIN s /\ s.chainId # 0 THEN s.chainId ELSE DefaultChainId
RespSession(s) ==
  Resp(200, [address |-> AddressOr(s), chainId |-> ChainOr(s),
             isAuthenticated |-> Truthy(s)])
RespSession500 == Resp(500, [error |-> "Failed to get session"])

(* ------------------------------- state --------------------------------- *)
VARIABLES
  now,        \* Date.now(), seconds
  nonceDB,    \* the Challenge Store
  issued,     \* history: the message the Message Builder issued per nonce
  jar,        \* each client's session cookie
  req,        \* the verify requests in flight
  succ,       \* history: verifier successes per nonce
  tried,      \* history: the issued message, rightly signed, was submitted
  authed,     \* history: the identity of each client's last verifier success
              \* that was answered, forgotten when the cookie is cleared,
              \* expires or is replaced by the client
  out,        \* the response sent by the last step (NoOut if it sent none)
  \* the vector similarity helpers
  table,      \* the rows of the identity table
  pending,    \* the SQL statement each call has sent and awaits
  vout,       \* the outcome of the call that completed last
  \* the handlers' catch blocks
  caught,     \* the exception the last handler caught, and its response
  answered,   \* history: the bodies each handler has answered an exception with
  \* the AuraClient SDK
  creq,       \* the request the client has sent and awaits
  cres,       \* the outcome of the client call that settled last
  \* the useAuraUser hook
  user,       \* useState: the signed-in user, or null
  state,      \* useState: the AuthState
  error,      \* useState: the error message, or null
  calls,      \* where each call of signIn, signOut, checkSession is
  timers,     \* the pending setTimeout(() => setState('disconnected'), 3000)
  settled,    \* the call of the hook that settled in the last step
  \* the Prometheus metrics of trustmath
  vectorSearchCounter,                \* counter, by status
  vectorSearchLatencyHistogram,       \* histogram, by status
  trustComputationCounter,            \* counter, by type
  trustComputationDurationHistogram,  \* histogram, by type
  tracking,   \* the wrapped functions that are awaited
  tracked,    \* history: the calls started, and per type those that
              \* resolved and those that completed
  mdone,      \* the tracked call that settled in the last step
  \* scripts/detect_secrets_in_history.sh
  argv,       \* "$@": the positional parameters not yet shifted away
  BRANCH, REPORT_PATH, LOG_OPTS,
  dpc,        \* where the script is
  dargs,      \* history: the arguments the script was started with
  \* scripts/bootstrap-aura-idtoken.sh
  MAX_RETRIES, RETRY_INTERVAL,
  retries,
  SECONDS,    \* bash's clock, as far as the sleeps of the loop move it
  pgReady,    \* history: a pg_isready check has succeeded
  bpc         \* where the script is

authVars == <<now, nonceDB, issued, jar, req, succ, tried, authed, out>>
vecVars == <<table, pending, vout>>
errVars == <<caught, answered>>
clientVars == <<creq, cres>>
hookVars == <<user, state, error, calls, timers, settled>>
metVars == <<vectorSearchCounter, vectorSearchLatencyHistogram,
             trustComputationCounter, trustComputationDurationHistogram,
             tracking, tracked, mdone>>
detectVars == <<argv, BRANCH, REPORT_PATH, LOG_OPTS, dpc, dargs>>
bootVars == <<MAX_RETRIES, RETRY_INTERVAL, retries, SECONDS, pgReady, bpc>>
vars == <<authVars, vecVars, errVars, clientVars, hookVars, metVars, detectVars,
          bootVars>>

\* A step of the authentication flow leaves the other components alone.
AuthOnly == UNCHANGED <<vecVars, errVars, clientVars, hookVars, metVars, detectVars, bootVars>>

NoMsg == EmptyMsg
Nobody == [address |-> "", chainId |-> 0]
Idle == [pc |-> "idle", client |-> "c1", msg |-> EmptyMsg, signer |-> "",
         cookie |-> NoCookie, found |-> "none", late |-> FALSE,
         first |-> FALSE, later |-> FALSE, result |-> NoResult]
Out(o, c, rq, response) == [op |-> o, client |-> c, req |-> rq, resp |-> response]
NoOut == Out("none", "", Idle, NoResp)

AuthInit ==
  /\ now = 0
  /\ nonceDB = [n \in Nonces |-> NoNonce]
  /\ issued = [n \in Nonces |-> NoMsg]
  /\ jar = [c \in Clients |-> NoCookie]
  /\ req = [r \in Slots |-> Idle]
  /\ succ = [n \in Nonces |-> 0]
  /\ tried = [n \in Nonces |-> FALSE]
  /\ authed = [c \in Clients |-> Nobody]
  /\ out = NoOut

(* ---------------------- POST /api/auth/message ------------------------- *)
\* handler of /api/auth/message: 400 without an address, else
\* auraAuth.getMessage(domain, address, chainId) issues a message with a
\* fresh nonce and registers the nonce as unused.
RequestMessage(a, c, n) ==
  /\ ~nonceDB[n].stored
  /\ LET body == [Idle EXCEPT !.msg.address = a, !.msg.chainId = c] IN
     IF AddressMissing(a)
       THEN /\ out' = Out("message", "", body, RespAddressRequired)
            /\ UNCHANGED <<nonceDB, issued>>
       ELSE /\ nonceDB' = storeNonce(nonceDB, n, now)
            /\ issued' = [issued EXCEPT ![n] = SiweMsg(a, c, n, {})]
            /\ out' = Out("message", "", body, Resp(200, [message |-> issued'[n]]))
  /\ UNCHANGED <<now, jar, req, succ, tried, authed>>
  /\ AuthOnly

(* ----------------------- POST /api/auth/verify ------------------------- *)
\* The issued message of m's nonce, signed by the key of its address
Legit(m, k) ==
  /\ m.form = "siwe" /\ m.nonce \in Nonces
  /\ issued[m.nonce] = m /\ k = m.address

\* What the lookup of the nonce saw
Seen(found) ==
  IF found = {} THEN "absent"
  ELSE IF \E rec \in found : rec.used THEN "used" ELSE "unused"

\* The handler answers request r with `response`; rq is the request's
\* record, its pc the place where the handler stopped.
Finish(r, rq, response) ==
  /\ req' = [req EXCEPT ![r] = Idle]
  /\ out' = Out("verify", rq.client, rq, response)

\* auraAuth.verify has returned `result`: lines 242-247 of the handler
Conclude(r, rq, result) ==
  IF Rejects(result)
    THEN Finish(r, [rq EXCEPT !.result = result], RespVerifyFailed(result))
    ELSE /\ req' = [req EXCEPT ![r] = [rq EXCEPT !.pc = "verified", !.result = result]]
         /\ out' = NoOut

\* The request arrives: body check, new SiweMessage(message),
\* await getNonceFromDB(..) and the test of its result.
VerifyStart(r, c, m, k) ==
  /\ req[r].pc = "idle"
  /\ LET known == ~BodyIncomplete(m, k) /\ ~ParseFails(m) /\ m.nonce \in Nonces
         found == IF ~known THEN {} ELSE getNonceFromDB(nonceDB, m.nonce, now)
         rq == [pc |-> "start", client |-> c, msg |-> m, signer |-> k,
                cookie |-> jar[c],
                found |-> IF BodyIncomplete(m, k) \/ ParseFails(m) THEN "none"
                          ELSE Seen(found),
                late |-> known /\ nonceDB[m.nonce].stored
                                 /\ now >= nonceDB[m.nonce].created + TTL,
                first |-> Legit(m, k) /\ ~tried[m.nonce],
                later |-> known /\ succ[m.nonce] > 0,
                result |-> NoResult]
     IN
     /\ tried' = IF Legit(m, k) THEN [tried EXCEPT ![m.nonce] = TRUE] ELSE tried
     /\ IF BodyIncomplete(m, k)
          THEN Finish(r, rq, RespRequired)
          ELSE IF ParseFails(m)
            THEN Conclude(r, rq, VerifyFailed(ErrMalformed))
          ELSE IF NonceInvalid(found)
            THEN Conclude(r, rq, VerifyFailed(ErrNonce))
          ELSE /\ req' = [req EXCEPT ![r] = [rq EXCEPT !.pc = "nonceChecked"]]
               /\ out' = NoOut
  /\ UNCHANGED <<now, nonceDB, issued, jar, succ, authed>>
  /\ AuthOnly

\* await siweMessage.verify({signature})
VerifySig(r) ==
  /\ req[r].pc = "nonceChecked"
  /\ LET err == siweVerify(req[r].msg, req[r].signer, now) IN
     IF err # ""
       THEN Conclude(r, req[r], VerifyFailed(err))
       ELSE /\ req' = [req EXCEPT ![r].pc = "sigVerified"]
            /\ out' = NoOut
  /\ UNCHANGED <<now, nonceDB, issued, jar, succ, tried, authed>>
  /\ AuthOnly

\* await markNonceAsUsed(siweMessage.nonce); return siweMessage.address
VerifyMark(r) ==
  /\ req[r].pc = "sigVerified"
  /\ nonceDB' = markNonceAsUsed(nonceDB, req[r].msg.nonce)
  /\ succ' = [succ EXCEPT ![req[r].msg.nonce] = @ + 1]
  /\ Conclude(r, req[r], VerifyOk(req[r].msg))
  /\ UNCHANGED <<now, issued, jar, tried, authed>>
  /\ AuthOnly

\* lines 249-263 (and the catch of 264-270): getSession, updateSession,
\* the 200 answer; its Set-Cookie replaces the client's cookie.
VerifyRespond(r) ==
  /\ req[r].pc = "verified"
  /\ LET rq == req[r]
         c == rq.client
         result == rq.result
     IN
     IF CanUnseal(rq.cookie)
       THEN /\ jar' = [jar EXCEPT ![c] =
                         updateSession(getSession(rq.cookie), result.address, result.chainId)]
            /\ Finish(r, rq, RespVerifyOk(result))
            /\ authed' = [authed EXCEPT ![c] =
                            IF result.success
                              THEN [address |-> result.address, chainId |-> result.chainId]
                              ELSE Nobody]
       ELSE /\ Finish(r, rq, RespVerify500)
            /\ UNCHANGED <<jar, authed>>
  /\ UNCHANGED <<now, nonceDB, issued, succ, tried>>
  /\ AuthOnly

(* ----------------------- GET /api/auth/session ------------------------- *)
SessionGet(c) ==
  /\ out' = Out("session", c, Idle,
                IF CanUnseal(jar[c]) THEN RespSession(getSession(jar[c]))
                ELSE RespSession500)
  /\ UNCHANGED <<now, nonceDB, issued, jar, req, succ, tried, authed>>
  /\ AuthOnly

(* ---------------------------- destroySession --------------------------- *)
\* destroySession(req, res, config): getSession, then session.destroy().
\* It rejects, leaving the cookie alone, when getSession does.
DestroySession(c) ==
  /\ IF CanUnseal(jar[c])
       THEN /\ jar' = [jar EXCEPT ![c] = destroy(getSession(jar[c]))]
            /\ authed' = [authed EXCEPT ![c] = Nobody]
            /\ out' = Out("destroySession", c, [Idle EXCEPT !.cookie = jar[c]],
                          Resp(200, EmptyData))
       ELSE /\ out' = Out("destroySession", c, [Idle EXCEPT !.cookie = jar[c]],
                          Resp(500, EmptyData))
            /\ UNCHANGED <<jar, authed>>
  /\ UNCHANGED <<now, nonceDB, issued, req, succ, tried>>
  /\ AuthOnly

(* ----------------------- POST /api/auth/signout ------------------------ *)
\* handler of /api/auth/signout: getSession, auraAuth.signOut(session)
\* (which destroys the session), 200 {success:true}; handleApiError on a throw.
RespSignOut == Resp(200, [success |-> TRUE])
RespSignOut500(message) == Resp(500, [error |-> message])
SignOut(c) ==
  /\ IF CanUnseal(jar[c])
       THEN /\ jar' = [jar EXCEPT ![c] = destroy(getSession(jar[c]))]
            /\ authed' = [authed EXCEPT ![c] = Nobody]
            /\ out' = Out("signout", c, [Idle EXCEPT !.cookie = jar[c]], RespSignOut)
       ELSE /\ out' = Out("signout", c, [Idle EXCEPT !.cookie = jar[c]],
                          RespSignOut500(ErrUnseal))
            /\ UNCHANGED <<jar, authed>>
  /\ UNCHANGED <<now, nonceDB, issued, req, succ, tried>>
  /\ AuthOnly

(* ------------------------------ the client ----------------------------- *)
\* The browser drops the cookie when its maxAge has passed.
CookieExpire(c) ==
  /\ jar[c].kind = "sealed"
  /\ jar' = [jar EXCEPT ![c] = NoCookie]
  /\ authed' = [authed EXCEPT ![c] = Nobody]
  /\ out' = NoOut
  /\ UNCHANGED <<now, nonceDB, issued, req, succ, tried>>
  /\ AuthOnly

\* The client replaces its cookie by one the server never sealed.
Tamper(c, bad) ==
  /\ jar[c] # bad
  /\ jar' = [jar EXCEPT ![c] = bad]
  /\ authed' = [authed EXCEPT ![c] = Nobody]
  /\ out' = NoOut
  /\ UNCHANGED <<now, nonceDB, issued, req, succ, tried>>
  /\ AuthOnly

Tick ==
  /\ now + TickStep <= MaxTicks * TickStep
  /\ now' = now + TickStep
  /\ out' = NoOut
  /\ UNCHANGED <<nonceDB, issued, jar, req, succ, tried, authed>>
  /\ AuthOnly

(* ======================= Vector Similarity Helper ====================== *)
\* Two helpers are in the repository: the one that is handed a Prisma
\* client (identity rows keyed by id), and the one of the database-client
\* package (DC_..., identity rows keyed by address).
Dim == 1               \* dimension of the embedding column
MaxLen == 2            \* longest embedding a caller passes
DefaultLimit == 10     \* limit: number = 10
DefaultThreshold == 1  \* threshold: number = 1.0
DC_DefaultK == 10      \* k: number = 10

\* JS numbers.  A finite number is kept in halves (h is twice its value), so
\* that 1.5 is a number of the model.
Num(h) == [t |-> "number", h |-> h]
Whole(n) == Num(2 * n)
NaN == [t |-> "NaN", h |-> 0]
Infinity == [t |-> "Infinity", h |-> 0]
Undefined == [t |-> "undefined", h |-> 0]     \* an argument that is not passed
isNaN(x) == x.t = "NaN"
isFinite(x) == x.t = "number"
IsInteger(x) == x.t = "number" /\ x.h % 2 = 0
\* x <= 0: false for NaN and Infinity
LeZero(x) == x.t = "number" /\ x.h <= 0
\* a parameter with a default value
OrDefault(x, d) == IF x = Undefined THEN d ELSE x

Values == {Whole(0), Whole(1), NaN, Infinity}
Embeddings == UNION {[1..n -> Values] : n \in 0..MaxLen}
Limits == {Undefined, Whole(-1), Whole(0), Whole(1), Whole(2), Num(3)}
Thresholds == {Undefined, Whole(-1), Whole(0), Whole(1), Whole(2), NaN, Infinity}
Ids == {"id1", "id2"}
VSlots == {1, 2}       \* calls that can be in flight

\* part_021 validateEmbedding: false unless a non-empty array of finite numbers
validateEmbedding(embedding) ==
  /\ Len(embedding) # 0
  /\ \A i \in 1..Len(embedding) : ~isNaN(embedding[i]) /\ isFinite(embedding[i])
\* vector.ts validateEmbedding: FALSE when it throws
DC_validateEmbedding(embedding) ==
  /\ Len(embedding) # 0
  /\ \A i \in 1..Len(embedding) : ~isNaN(embedding[i])

ErrEmbedding == "Invalid embedding: must be a non-empty array of finite numbers"
ErrQueryEmbedding == "Invalid query embedding: must be a non-empty array of finite numbers"
ErrLimit == "Invalid limit: must be a positive integer"
ErrThreshold == "Invalid threshold: must be a positive finite number"
DC_ErrEmbedding == "Embedding must contain only valid numbers"
DC_ErrEmpty == "Embedding cannot be empty"
ErrDb == "PrismaClientKnownRequestError"

(* ------------------------------ the store ------------------------------ *)
\* `$n::vector` stored into, or compared with, the vector(Dim) column:
\* pgvector raises an error for another dimension and for an element that
\* is not finite.
DbVector(e) == Len(e) = Dim /\ \A i \in 1..Len(e) : isFinite(e[i])
Row(id, e) == [id |-> id, embedding |-> e]

\* (variant: a plain INSERT, without the ON CONFLICT clause)
Upsert_Insert(tbl, id, e) == tbl \cup {Row(id, e)}
\* INSERT .. VALUES ($1, $2::vector) ON CONFLICT (id) DO UPDATE SET
\* embedding = $2::vector
Upsert(tbl, id, e) ==
  IF \E r \in tbl : r.id = id
    THEN {IF r.id = id THEN [r EXCEPT !.embedding = e] ELSE r : r \in tbl}
    ELSE tbl \cup {Row(id, e)}

\* embedding <-> $1::vector, the Euclidean distance.  The model keeps every
\* distance as the square of twice its value: the order is the same, and
\* d < t for a positive t is Dist2 < Sq(t).
RECURSIVE SumSq(_, _, _)
SumSq(a, b, i) ==
  IF i = 0 THEN 0 ELSE (a[i].h - b[i].h) * (a[i].h - b[i].h) + SumSq(a, b, i - 1)
Dist2(a, b) == SumSq(a, b, Len(a))
Sq(t) == t.h * t.h

\* SELECT id, (embedding <-> $1::vector) as distance FROM "Identity"
Scored(tbl, q) == {[id |-> r.id, distance |-> Dist2(r.embedding, q)] : r \in tbl}
\* AND (embedding <-> $1::vector) < $2
Below(rows, t) == {r \in rows : r.distance < Sq(t)}
\* ORDER BY embedding <-> $1::vector: every order of the rows that ascends by
\* distance (rows at the same distance come in any order)
OrderBy(rows) ==
  {s \in [1..Cardinality(rows) -> rows] :
     /\ \A i, j \in 1..Cardinality(rows) : i # j => s[i] # s[j]
     /\ \A i, j \in 1..Cardinality(rows) : i < j => s[i].distance <= s[j].distance}
\* (variant: the LIMIT clause dropped)
Limit_None(s, n) == s
\* LIMIT $3
Limit(s, n) == SubSeq(s, 1, IF n < Len(s) THEN n ELSE Len(s))
\* The row counts LIMIT can take from a number: the number itself, or one of
\* its two neighbours when it is not an integer.
LimitCounts(k) == IF IsInteger(k) THEN {k.h \div 2} ELSE {k.h \div 2, (k.h + 1) \div 2}

(* ------------------------------ the calls ------------------------------ *)
Call(fn, impl, id, e, k, t) ==
  [fn |-> fn, impl |-> impl, id |-> id, embedding |-> e, limit |-> k, threshold |-> t]
NoCall == Call("none", "", "", <<>>, Undefined, Undefined)
\* The call threw / returned after it had issued `queries` statements;
\* before is the table as it was when the call completed.
Threw(c, e, queries, tbl) ==
  [call |-> c, threw |-> TRUE, error |-> e, rows |-> <<>>, queries |-> queries,
   before |-> tbl]
Returned(c, rows, tbl) ==
  [call |-> c, threw |-> FALSE, error |-> "", rows |-> rows, queries |-> 1,
   before |-> tbl]
NoVOut == [call |-> NoCall, threw |-> FALSE, error |-> "", rows |-> <<>>,
           queries |-> 0, before |-> {}]

VecInit ==
  /\ table = {}
  /\ pending = [s \in VSlots |-> NoCall]
  /\ vout = NoVOut

VecOnly == UNCHANGED <<authVars, errVars, clientVars, hookVars, metVars, detectVars, bootVars>>

\* The call throws before it has sent a statement.
Reject(c, e) ==
  /\ vout' = Threw(c, e, 0, table)
  /\ UNCHANGED <<table, pending>>
\* The call of slot s sends its statement and awaits the result.
Send(s, c) ==
  /\ pending' = [pending EXCEPT ![s] = c]
  /\ UNCHANGED <<table, vout>>

\* part_021 upsertIdentityEmbedding(prisma, identityId, embedding), up to
\* its await
upsertIdentityEmbedding(s) ==
  /\ pending[s] = NoCall /\ vout = NoVOut
  /\ \E identityId \in Ids, embedding \in Embeddings :
       LET c == Call("upsert", "lib", identityId, embedding, Undefined, Undefined) IN
       IF ~validateEmbedding(embedding) THEN Reject(c, ErrEmbedding) ELSE Send(s, c)
  /\ VecOnly

\* vector.ts upsertIdentityEmbedding(address, embedding), up to its await
DC_upsertIdentityEmbedding(s) ==
  /\ pending[s] = NoCall /\ vout = NoVOut
  /\ \E address \in Ids, embedding \in Embeddings :
       LET c == Call("upsert", "dc", address, embedding, Undefined, Undefined) IN
       IF ~DC_validateEmbedding(embedding)
         THEN Reject(c, IF Len(embedding) = 0 THEN DC_ErrEmpty ELSE DC_ErrEmbedding)
         ELSE Send(s, c)
  /\ VecOnly

\* part_021 findSimilarIdentities(prisma, queryEmbedding, limit, threshold),
\* up to its await
findSimilarIdentities(s) ==
  /\ pending[s] = NoCall /\ vout = NoVOut
  /\ \E queryEmbedding \in Embeddings, k \in Limits, t \in Thresholds :
       LET c == Call("find", "lib", "", queryEmbedding, k, t)
           limit == OrDefault(k, Whole(DefaultLimit))
           threshold == OrDefault(t, Whole(DefaultThreshold))
       IN
       IF ~validateEmbedding(queryEmbedding) THEN Reject(c, ErrQueryEmbedding)
       ELSE IF LeZero(limit) \/ ~IsInteger(limit) THEN Reject(c, ErrLimit)
       ELSE IF LeZero(threshold) \/ ~isFinite(threshold) THEN Reject(c, ErrThreshold)
       ELSE Send(s, c)
  /\ VecOnly

\* vector.ts findSimilarIdentities(embedding, k), up to its await
DC_findSimilarIdentities(s) ==
  /\ pending[s] = NoCall /\ vout = NoVOut
  /\ \E embedding \in Embeddings, k \in Limits :
       LET c == Call("find", "dc", "", embedding, k, Undefined) IN
       IF ~DC_validateEmbedding(embedding)
         THEN Reject(c, IF Len(embedding) = 0 THEN DC_ErrEmpty ELSE DC_ErrEmbedding)
         ELSE Send(s, c)
  /\ VecOnly

\* The database executes the INSERT .. ON CONFLICT of slot s, one atomic
\* statement, and the call returns; the call rejects when the database
\* raises an error.
ExecuteUpsert(s) ==
  /\ pending[s].fn = "upsert"
  /\ LET c == pending[s] IN
     IF DbVector(c.embedding)
       THEN /\ table' = Upsert(table, c.id, c.embedding)
            /\ vout' = Returned(c, <<>>, table)
       ELSE /\ vout' = Threw(c, ErrDb, 1, table)
            /\ UNCHANGED table
  /\ pending' = [pending EXCEPT ![s] = NoCall]
  /\ VecOnly

\* The database executes the SELECT of slot s and the call returns its
\* rows.  The database raises an error for a query vector it cannot
\* compare and for a negative LIMIT; a LIMIT that is not an integer is an
\* error or is rounded.
ExecuteSelect(s) ==
  /\ pending[s].fn = "find"
  /\ LET c == pending[s]
         k == OrDefault(c.limit, Whole(IF c.impl = "lib" THEN DefaultLimit ELSE DC_DefaultK))
         scored == Scored(table, c.embedding)
         rows == IF c.impl = "lib"
                   THEN Below(scored, OrDefault(c.threshold, Whole(DefaultThreshold)))
                   ELSE scored
         results == {Limit(o, n) : o \in OrderBy(rows), n \in LimitCounts(k)}
         outcomes ==
           IF ~DbVector(c.embedding) \/ k.h < 0 THEN {Threw(c, ErrDb, 1, table)}
           ELSE (IF IsInteger(k) THEN {} ELSE {Threw(c, ErrDb, 1, table)})
                \cup {Returned(c, r, table) : r \in results}
     IN \E o \in outcomes : vout' = o
  /\ pending' = [pending EXCEPT ![s] = NoCall]
  /\ UNCHANGED table
  /\ VecOnly

\* The caller has taken the outcome of the call.
Return ==
  /\ vout # NoVOut
  /\ vout' = NoVOut
  /\ UNCHANGED <<table, pending>>
  /\ VecOnly

(* ========================= the catch blocks ============================ *)
\* What a handler can catch: an Error with a message, or a value that is
\* not an Error.
Failure(m) == [isError |-> TRUE, message |-> m]
NonError == [isError |-> FALSE, message |-> ""]
NoThrow == [isError |-> FALSE, message |-> "none"]
Exceptions ==
  {Failure("connect ECONNREFUSED 10.0.0.5:6379"), Failure("Cannot find password"),
   NonError}
Handlers == {"message", "session", "signout", "metrics"}

\* api-utils.ts lines 31-39: handleApiError(res, error, message, logPrefix)
handleApiError(err, message) == Resp(500, [error |-> message])
\* api-utils.ts lines 72-80: handleApiError(res, error, context)
handleApiErrorCtx(err, context) ==
  Resp(500, [error |-> IF err.isError THEN err.message ELSE "Internal server error"])
\* trustmath metricsHandler, its catch block
metricsCatch(err) ==
  Resp(500, [text |-> IF err.isError THEN err.message ELSE "Unknown error"])

ErrInit ==
  /\ caught = [handler |-> "none", error |-> NoThrow, resp |-> NoResp]
  /\ answered = [h \in Handlers |-> {}]

ErrOnly == UNCHANGED <<authVars, vecVars, clientVars, hookVars, metVars, detectVars, bootVars>>

\* Handler h has caught `err` and answered `response`.
Catch(h, err, response) ==
  /\ caught' = [handler |-> h, error |-> err, resp |-> response]
  /\ answered' = [answered EXCEPT ![h] = @ \cup {response.body}]

\* POST /api/auth/message, its catch block (part_005 lines 29-31)
MessageHandlerCatch(err) ==
  /\ Catch("message", err, handleApiError(err, "Failed to generate message"))
  /\ ErrOnly
\* GET /api/auth/session, its catch block (lines 22-24)
SessionHandlerCatch(err) ==
  /\ Catch("session", err, handleApiError(err, "Failed to get session"))
  /\ ErrOnly
\* POST /api/auth/signout, its catch block (lines 17-19)
SignOutHandlerCatch(err) ==
  /\ Catch("signout", err, handleApiErrorCtx(err, "Sign out error"))
  /\ ErrOnly
\* GET /metrics: register.metrics() resolves, or rejects with `err`
metricsHandler(err) ==
  /\ IF err = NoThrow
       THEN /\ caught' = [handler |-> "metrics", error |-> NoThrow,
                          resp |-> Resp(200, [text |-> "metrics"])]
            /\ UNCHANGED answered
       ELSE Catch("metrics", err, metricsCatch(err))
  /\ ErrOnly

(* ============================ AuraClient =============================== *)
\* The SDK client, as its unit tests describe it: every call is one fetch
\* with an abort timer of the configured timeout; a response that is not ok
\* is thrown as an Error.
Timeout == 2           \* the configured timeout, in ticks of the client's clock

Null == {}             \* null: a value v that is present is {v}
Ok(resp) == resp.status \in 200..299
HttpError(status) ==
  Failure(CASE status = 400 -> "HTTP error! status: 400"
            [] status = 500 -> "HTTP error! status: 500"
            [] OTHER -> "HTTP error! status")
FetchError == Failure("Failed to fetch")
AbortError == Failure("This operation was aborted")

\* (variant: a call that is never aborted)
TimedOut_Never(elapsed) == FALSE
\* The abort timer has fired once the timeout has elapsed.
TimedOut(elapsed) == elapsed >= Timeout

\* How a request ended: with the server's response, with a rejection of
\* fetch, or aborted by the timer.
Ended(how, resp) == [how |-> how, resp |-> resp]
\* The error that request() throws, NoThrow when it returns the body
requestError(end) ==
  IF end.how = "abort" THEN AbortError
  ELSE IF end.how = "network" THEN FetchError
  ELSE IF ~Ok(end.resp) THEN HttpError(end.resp.status)
  ELSE NoThrow

Settled(c, end, rejected, value, err) ==
  [call |-> c, end |-> end, rejected |-> rejected, value |-> value, error |-> err]
\* client.getSession(): the session when the server reports it
\* authenticated, null otherwise and null when the request fails
clientGetSession(c, end) ==
  IF requestError(end) = NoThrow /\ end.resp.body.isAuthenticated
    THEN Settled(c, end, FALSE, {end.resp.body}, NoThrow)
    ELSE Settled(c, end, FALSE, Null, NoThrow)
\* client.getMessage(address, chainId): the message of the response; it
\* rejects when the request fails
clientGetMessage(c, end) ==
  IF requestError(end) = NoThrow
    THEN Settled(c, end, FALSE, {end.resp.body.message}, NoThrow)
    ELSE Settled(c, end, TRUE, Null, requestError(end))

\* client.signOut(): resolves once the server has answered; it rejects
\* when the request fails
clientSignOut(c, end) ==
  IF requestError(end) = NoThrow
    THEN Settled(c, end, FALSE, Null, NoThrow)
    ELSE Settled(c, end, TRUE, Null, requestError(end))

\* A session whose fields outlived its authentication
StaleData == [address |-> "0xa1", chainId |-> 5, isAuthenticated |-> FALSE]
\* The cookies a browser can hold
Cookies == {NoCookie, BadSeal, BadFormat, Sealed(EmptyData), Sealed(StaleData)}
             \cup {Sealed(AuthData(a, c)) : a \in Addr, c \in Chain}
ClientCall(op, cookie, a, elapsed) ==
  [op |-> op, cookie |-> cookie, address |-> a, elapsed |-> elapsed]
NoClientCall == ClientCall("none", NoCookie, "", 0)
NoEnd == Ended("none", NoResp)
NoSettled == Settled(NoClientCall, NoEnd, FALSE, Null, NoThrow)

\* What the server answers to the request
ServerResponses(c) ==
  IF c.op = "getSession"
    THEN {IF CanUnseal(c.cookie) THEN RespSession(getSession(c.cookie))
          ELSE RespSession500}
  ELSE IF c.op = "signOut"
    THEN {IF CanUnseal(c.cookie) THEN RespSignOut ELSE RespSignOut500(ErrUnseal)}
    ELSE {IF AddressMissing(c.address) THEN RespAddressRequired
          ELSE Resp(200, [message |-> SiweMsg(c.address, DefaultChainId, "n1", {})]),
          handleApiError(FetchError, "Failed to generate message")}

ClientInit ==
  /\ creq = NoClientCall
  /\ cres = NoSettled

ClientOnly == UNCHANGED <<authVars, vecVars, errVars, hookVars, metVars, detectVars, bootVars>>

\* The call settles
Settle(end) ==
  /\ cres' = IF creq.op = "getSession" THEN clientGetSession(creq, end)
             ELSE IF creq.op = "signOut" THEN clientSignOut(creq, end)
             ELSE clientGetMessage(creq, end)
  /\ creq' = NoClientCall

\* client.getSession() / client.getMessage(address) / client.signOut() is
\* called: the request is sent and the abort timer started
ClientGetSession ==
  /\ creq = NoClientCall
  /\ \E cookie \in Cookies : creq' = ClientCall("getSession", cookie, "", 0)
  /\ cres' = NoSettled
  /\ ClientOnly
ClientGetMessage ==
  /\ creq = NoClientCall
  /\ \E a \in Addr \cup {""} : creq' = ClientCall("getMessage", NoCookie, a, 0)
  /\ cres' = NoSettled
  /\ ClientOnly

ClientSignOut ==
  /\ creq = NoClientCall
  /\ \E cookie \in Cookies : creq' = ClientCall("signOut", cookie, "", 0)
  /\ cres' = NoSettled
  /\ ClientOnly

\* Time passes while the request is awaited
Elapse ==
  /\ creq # NoClientCall /\ ~TimedOut(creq.elapsed)
  /\ creq' = [creq EXCEPT !.elapsed = @ + 1]
  /\ UNCHANGED cres
  /\ ClientOnly

\* The response arrives before the timer has fired
ResponseArrives ==
  /\ creq # NoClientCall /\ ~TimedOut(creq.elapsed)
  /\ \E resp \in ServerResponses(creq) : Settle(Ended("response", resp))
  /\ ClientOnly

\* fetch rejects: the server cannot be reached
FetchRejects ==
  /\ creq # NoClientCall /\ ~TimedOut(creq.elapsed)
  /\ Settle(Ended("network", NoResp))
  /\ ClientOnly

\* The abort timer fires: controller.abort() rejects the fetch
Abort ==
  /\ creq # NoClientCall /\ TimedOut(creq.elapsed)
  /\ Settle(Ended("abort", NoResp))
  /\ ClientOnly

(* ========================== useAuraUser hook =========================== *)
MaxTimers == 2         \* reset timers that can be pending at once
SignIns == {"signIn1", "signIn2"}   \* calls of signIn that can be in progress
HookCalls == SignIns \cup {"signOut", "checkSession"}

\* What the awaited wallet and client calls of signIn can reject with
WalletErrors == {Failure("User rejected the request."), NonError}
MessageErrors == {HttpError(500), AbortError}
SigningErrors == {Failure("user rejected action")}
VerifyErrors == {HttpError(400)}
VerifyResult(success, session, e) == [success |-> success, session |-> session, error |-> e]
VerifyResults ==
  {VerifyResult(TRUE, {AuthData("0xa1", 5)}, ""), VerifyResult(TRUE, Null, ""),
   VerifyResult(FALSE, Null, "Invalid signature"), VerifyResult(FALSE, Null, "")}
Sessions == {Null, {AuthData("0xa1", 5)}}

\* (variant: the message of whatever was thrown)
errorMessage_Raw(err) == err.message
\* line 99: err instanceof Error ? err.message : 'Sign in failed'
errorMessage(err) == IF err.isError THEN err.message ELSE "Sign in failed"
\* (variant: the session of the result is not looked at)
VerifySucceeded_NoSession(result) == result.success
\* line 92: if (result.success && result.session)
VerifySucceeded(result) == result.success /\ result.session # Null
\* line 96: new Error(result.error || 'Authentication failed')
AuthenticationFailed(result) ==
  Failure(IF result.error # "" THEN result.error ELSE "Authentication failed")

HookSettled(call, step, failed, threw) ==
  [call |-> call, step |-> step, failed |-> failed, threw |-> threw]
NoneSettled == HookSettled("none", "", FALSE, FALSE)

HookInit ==
  /\ user = Null
  /\ state = "disconnected"
  /\ error = Null
  /\ calls = [c \in HookCalls |-> "idle"]
  /\ timers = 0
  /\ settled = NoneSettled

HookOnly == UNCHANGED <<authVars, vecVars, errVars, clientVars, metVars, detectVars, bootVars>>

\* lines 98-103: the catch block of signIn
SignInCatch(i, err) ==
  /\ error' = {errorMessage(err)}
  /\ state' = "error"
  /\ timers' = timers + 1
  /\ calls' = [calls EXCEPT ![i] = "idle"]
  /\ settled' = HookSettled("signIn", calls[i], TRUE, FALSE)
  /\ UNCHANGED user
\* signIn goes on to its next await
SignInAwait(i, pc) ==
  /\ calls' = [calls EXCEPT ![i] = pc]
  /\ settled' = NoneSettled
  /\ UNCHANGED <<user, timers>>

\* signIn is called: lines 56-73, up to the await of eth_requestAccounts
HookSignIn(i) ==
  /\ calls[i] = "idle"
  /\ timers + Cardinality({j \in SignIns : calls[j] # "idle"}) < MaxTimers
  /\ \E ethereum \in BOOLEAN :
       IF ~ethereum
         THEN SignInCatch(i, Failure("Ethereum provider not available"))
         ELSE /\ error' = Null
              /\ state' = "connecting"
              /\ SignInAwait(i, "accounts")
  /\ HookOnly

\* lines 71-84: the account request, getSigner, getAddress and getNetwork
\* have settled; setState('connected'), setState('signing'), then the await
\* of client.getMessage
HookAccounts(i) ==
  /\ calls[i] = "accounts"
  /\ \/ \E err \in WalletErrors : SignInCatch(i, err)
     \/ /\ state' = "signing"
        /\ SignInAwait(i, "message")
        /\ UNCHANGED error
  /\ HookOnly

\* lines 84-87: client.getMessage has settled; then the await of
\* signer.signMessage
HookMessage(i) ==
  /\ calls[i] = "message"
  /\ \/ \E err \in MessageErrors : SignInCatch(i, err)
     \/ /\ SignInAwait(i, "signing")
        /\ UNCHANGED <<state, error>>
  /\ HookOnly

\* lines 87-90: signer.signMessage has settled; then the await of
\* client.verify
HookSigned(i) ==
  /\ calls[i] = "signing"
  /\ \/ \E err \in SigningErrors : SignInCatch(i, err)
     \/ /\ SignInAwait(i, "verify")
        /\ UNCHANGED <<state, error>>
  /\ HookOnly

\* lines 90-97: client.verify has settled
HookVerified(i) ==
  /\ calls[i] = "verify"
  /\ \/ \E err \in VerifyErrors : SignInCatch(i, err)
     \/ \E result \in VerifyResults :
          IF VerifySucceeded(result)
            THEN /\ user' = result.session
                 /\ state' = "authenticated"
                 /\ calls' = [calls EXCEPT ![i] = "idle"]
                 /\ settled' = HookSettled("signIn", "verify", FALSE, FALSE)
                 /\ UNCHANGED <<error, timers>>
            ELSE SignInCatch(i, AuthenticationFailed(result))
  /\ HookOnly

\* line 102: the timer of a failed signIn fires
HookTimer ==
  /\ timers > 0
  /\ timers' = timers - 1
  /\ state' = "disconnected"
  /\ settled' = NoneSettled
  /\ UNCHANGED <<user, error, calls>>
  /\ HookOnly

\* signOut is called: line 108, the await of client.signOut
HookSignOut ==
  /\ calls["signOut"] = "idle"
  /\ calls' = [calls EXCEPT !["signOut"] = "signOut"]
  /\ settled' = NoneSettled
  /\ UNCHANGED <<user, state, error, timers>>
  /\ HookOnly

\* (variant: the local state is cleared whether or not client.signOut
\* succeeded)
HookSignedOut_ClearsAlways ==
  /\ calls["signOut"] = "signOut"
  /\ calls' = [calls EXCEPT !["signOut"] = "idle"]
  /\ \E rejected \in BOOLEAN :
       /\ user' = Null
       /\ state' = "disconnected"
       /\ error' = Null
       /\ settled' = HookSettled("signOut", "signOut", rejected, FALSE)
  /\ UNCHANGED timers
  /\ HookOnly
\* lines 108-114: client.signOut has settled
HookSignedOut ==
  /\ calls["signOut"] = "signOut"
  /\ calls' = [calls EXCEPT !["signOut"] = "idle"]
  /\ \E rejected \in BOOLEAN :
       IF rejected
         THEN /\ settled' = HookSettled("signOut", "signOut", TRUE, FALSE)
              /\ UNCHANGED <<user, state, error>>
         ELSE /\ user' = Null
              /\ state' = "disconnected"
              /\ error' = Null
              /\ settled' = HookSettled("signOut", "signOut", FALSE, FALSE)
  /\ UNCHANGED timers
  /\ HookOnly

\* checkSession is called (on mount): line 44, the await of
\* client.getSession
HookCheckSession ==
  /\ calls["checkSession"] = "idle"
  /\ calls' = [calls EXCEPT !["checkSession"] = "getSession"]
  /\ settled' = NoneSettled
  /\ UNCHANGED <<user, state, error, timers>>
  /\ HookOnly

\* lines 44-48: client.getSession has returned
HookSessionChecked ==
  /\ calls["checkSession"] = "getSession"
  /\ calls' = [calls EXCEPT !["checkSession"] = "idle"]
  /\ \E session \in Sessions :
       IF session # Null
         THEN /\ user' = session
              /\ state' = "authenticated"
         ELSE UNCHANGED <<user, state>>
  /\ settled' = HookSettled("checkSession", "getSession", FALSE, FALSE)
  /\ UNCHANGED <<error, timers>>
  /\ HookOnly

(* ========================= Prometheus metrics ========================== *)
\* trustmath's metrics module: the counters and histograms of the
\* process-wide registry and the two wrappers that feed them.
MaxTracked == 3        \* tracked calls of one run
MSlots == {1, 2}       \* tracked calls that can be awaited at once
Statuses == {"success", "error"}
ComputationTypes == {"trust_score", "decay"}
Durations == {0, 1}    \* Date.now() - start, in ticks

\* How the wrapped function settled: its value, or what it threw
Outcome(rejected, value, err) == [rejected |-> rejected, value |-> value, error |-> err]
Outcomes ==
  {Outcome(FALSE, {"rows"}, NoThrow), Outcome(FALSE, Null, NoThrow),
   Outcome(TRUE, Null, Failure("connection terminated")), Outcome(TRUE, Null, NonError)}

\* counter.inc(labels)
inc(counter, label) == [counter EXCEPT ![label] = @ + 1]
\* histogram.observe(labels, value)
observe(histogram, label, value) ==
  [histogram EXCEPT ![label] = [count |-> @.count + 1, sum |-> @.sum + value]]

\* (variant: the catch block that sets status = 'error' dropped)
searchStatus_Success(o) == "success"
\* trackVectorSearch lines 234-241: status is 'success' unless searchFn threw
searchStatus(o) == IF o.rejected THEN "error" ELSE "success"

\* (variant: the counter incremented in the finally block)
computationCounted_Always(o) == TRUE
\* trackTrustComputation lines 259-261: inc follows the await inside the try
computationCounted(o) == ~o.rejected

Tracking(op, type) == [op |-> op, type |-> type]
NotTracking == Tracking("none", "")
MDone(op, type, fn, got) == [op |-> op, type |-> type, fn |-> fn, got |-> got]
NoMDone == MDone("none", "", Outcome(FALSE, Null, NoThrow), Outcome(FALSE, Null, NoThrow))

MetInit ==
  /\ vectorSearchCounter = [l \in Statuses |-> 0]
  /\ vectorSearchLatencyHistogram = [l \in Statuses |-> [count |-> 0, sum |-> 0]]
  /\ trustComputationCounter = [t \in ComputationTypes |-> 0]
  /\ trustComputationDurationHistogram =
       [t \in ComputationTypes |-> [count |-> 0, sum |-> 0]]
  /\ tracking = [s \in MSlots |-> NotTracking]
  /\ tracked = [started |-> 0,
                resolved |-> [t \in ComputationTypes |-> 0],
                completed |-> [t \in ComputationTypes |-> 0]]
  /\ mdone = NoMDone

MetOnly == UNCHANGED <<authVars, vecVars, errVars, clientVars, hookVars, detectVars, bootVars>>

\* trackVectorSearch(searchFn) is called: lines 233-237, up to the await
trackVectorSearch(s) ==
  /\ tracking[s] = NotTracking /\ tracked.started < MaxTracked
  /\ tracking' = [tracking EXCEPT ![s] = Tracking("search", "")]
  /\ tracked' = [tracked EXCEPT !.started = @ + 1]
  /\ mdone' = NoMDone
  /\ UNCHANGED <<vectorSearchCounter, vectorSearchLatencyHistogram,
                 trustComputationCounter, trustComputationDurationHistogram>>
  /\ MetOnly

\* searchFn has settled: lines 237-246
VectorSearchSettles(s) ==
  /\ tracking[s].op = "search"
  /\ \E o \in Outcomes, duration \in Durations :
       /\ vectorSearchCounter' = inc(vectorSearchCounter, searchStatus(o))
       /\ vectorSearchLatencyHistogram' =
            observe(vectorSearchLatencyHistogram, searchStatus(o), duration)
       /\ mdone' = MDone("search", "", o, o)
  /\ tracking' = [tracking EXCEPT ![s] = NotTracking]
  /\ UNCHANGED <<trustComputationCounter, trustComputationDurationHistogram, tracked>>
  /\ MetOnly

\* trackTrustComputation(type, computeFn) is called: lines 256-259
trackTrustComputation(s) ==
  /\ tracking[s] = NotTracking /\ tracked.started < MaxTracked
  /\ \E type \in ComputationTypes :
       tracking' = [tracking EXCEPT ![s] = Tracking("compute", type)]
  /\ tracked' = [tracked EXCEPT !.started = @ + 1]
  /\ mdone' = NoMDone
  /\ UNCHANGED <<vectorSearchCounter, vectorSearchLatencyHistogram,
                 trustComputationCounter, trustComputationDurationHistogram>>
  /\ MetOnly

\* computeFn has settled: lines 259-265
TrustComputationSettles(s) ==
  /\ tracking[s].op = "compute"
  /\ LET type == tracking[s].type IN
     \E o \in Outcomes, duration \in Durations :
       /\ trustComputationCounter' =
            IF computationCounted(o) THEN inc(trustComputationCounter, type)
            ELSE trustComputationCounter
       /\ trustComputationDurationHistogram' =
            observe(trustComputationDurationHistogram, type, duration)
       /\ tracked' = [tracked EXCEPT
                        !.resolved[type] = IF o.rejected THEN @ ELSE @ + 1,
                        !.completed[type] = @ + 1]
       /\ mdone' = MDone("compute", type, o, o)
  /\ tracking' = [tracking EXCEPT ![s] = NotTracking]
  /\ UNCHANGED <<vectorSearchCounter, vectorSearchLatencyHistogram>>
  /\ MetOnly

(* ================ scripts/detect_secrets_in_history.sh ================= *)
MaxArgs == 3           \* arguments on the command line
Words == {"main", "--report", "r.json", "--help"}
CommandLines == UNION {[1..n -> Words] : n \in 0..MaxArgs}
DefaultReportPath == "gitleaks-history-report.json"
AllBranches == "--all"

DetectInit ==
  /\ argv = <<>>
  /\ BRANCH = ""
  /\ REPORT_PATH = DefaultReportPath
  /\ LOG_OPTS = AllBranches
  /\ dpc = "idle"
  /\ dargs = <<>>

DetectOnly == UNCHANGED <<authVars, vecVars, errVars, clientVars, hookVars, metVars, bootVars>>

\* The script is started: lines 19-21
DetectStart ==
  /\ dpc = "idle"
  /\ \E args \in CommandLines :
       /\ argv' = args
       /\ dargs' = args
       /\ BRANCH' = IF args # <<>> THEN args[1] ELSE ""
  /\ REPORT_PATH' = DefaultReportPath
  /\ LOG_OPTS' = AllBranches
  /\ dpc' = "parse"
  /\ DetectOnly

\* One turn of the while loop of lines 24-52.  Under set -u the expansion
\* of "$2" ends the script when --report is the last argument.
ParseArgument ==
  /\ dpc = "parse" /\ argv # <<>>
  /\ IF argv[1] = "--report"
       THEN IF Len(argv) < 2
              THEN /\ dpc' = "unbound"
                   /\ UNCHANGED <<argv, BRANCH, REPORT_PATH, LOG_OPTS>>
              ELSE /\ REPORT_PATH' = argv[2]
                   /\ argv' = Tail(Tail(argv))
                   /\ UNCHANGED <<BRANCH, LOG_OPTS, dpc>>
     ELSE IF argv[1] = "--help"
       THEN /\ dpc' = "help"
            /\ UNCHANGED <<argv, BRANCH, REPORT_PATH, LOG_OPTS>>
     ELSE /\ IF BRANCH = ""
               THEN BRANCH' = argv[1] /\ LOG_OPTS' = argv[1]
               ELSE UNCHANGED <<BRANCH, LOG_OPTS>>
          /\ argv' = Tail(argv)
          /\ UNCHANGED <<REPORT_PATH, dpc>>
  /\ UNCHANGED dargs
  /\ DetectOnly

\* The arguments are parsed: the checks of lines 55-73, then gitleaks
\* detect --report-path="$REPORT_PATH" --log-opts="$LOG_OPTS" (lines 96-101)
RunGitleaks ==
  /\ dpc = "parse" /\ argv = <<>>
  /\ \E installed, inRepository \in BOOLEAN :
       dpc' = IF installed /\ inRepository THEN "gitleaks" ELSE "exit1"
  /\ UNCHANGED <<argv, BRANCH, REPORT_PATH, LOG_OPTS, dargs>>
  /\ DetectOnly

(* ================== scripts/bootstrap-aura-idtoken.sh ================== *)
MaxRetries == 3        \* the largest MAX_RETRIES of the environment
Intervals == {1, 2}    \* the values of RETRY_INTERVAL, seconds

BootInit ==
  /\ MAX_RETRIES = 1
  /\ RETRY_INTERVAL = 1
  /\ retries = 0
  /\ SECONDS = 0
  /\ pgReady = FALSE
  /\ bpc = "idle"

BootOnly ==
  UNCHANGED <<authVars, vecVars, errVars, clientVars, hookVars, metVars, detectVars>>

\* The script is started: the settings of lines 12-13 and the checks of
\* lines 54-71 (docker installed, .env present)
BootstrapStart ==
  /\ bpc = "idle"
  /\ \E max \in 1..MaxRetries, interval \in Intervals :
       MAX_RETRIES' = max /\ RETRY_INTERVAL' = interval
  /\ \E docker, envFile \in BOOLEAN :
       bpc' = IF docker /\ envFile THEN "up" ELSE "exit 1: setup"
  /\ UNCHANGED <<retries, SECONDS, pgReady>>
  /\ BootOnly

\* lines 84-92: docker compose up -d postgres redis; retries=0
ComposeUp ==
  /\ bpc = "up"
  /\ \E started \in BOOLEAN :
       bpc' = IF started THEN "until" ELSE "exit 1: compose"
  /\ retries' = 0
  /\ UNCHANGED <<MAX_RETRIES, RETRY_INTERVAL, SECONDS, pgReady>>
  /\ BootOnly

\* line 93: until pg_isready || [ "$retries" -ge "$MAX_RETRIES" ]
PgIsReady ==
  /\ bpc = "until"
  /\ \E accepting \in BOOLEAN :
       /\ pgReady' = (pgReady \/ accepting)
       /\ bpc' = IF accepting \/ retries >= MAX_RETRIES THEN "done" ELSE "do"
  /\ UNCHANGED <<MAX_RETRIES, RETRY_INTERVAL, retries, SECONDS>>
  /\ BootOnly

\* lines 94-96: the body of the loop
Sleep ==
  /\ bpc = "do"
  /\ retries' = retries + 1
  /\ SECONDS' = SECONDS + RETRY_INTERVAL
  /\ bpc' = "until"
  /\ UNCHANGED <<MAX_RETRIES, RETRY_INTERVAL, pgReady>>
  /\ BootOnly

\* lines 98-102: the test after the loop
AfterLoop ==
  /\ bpc = "done"
  /\ bpc' = IF retries >= MAX_RETRIES THEN "exit 1: timeout" ELSE "pgvector"
  /\ UNCHANGED <<MAX_RETRIES, RETRY_INTERVAL, retries, SECONDS, pgReady>>
  /\ BootOnly

\* lines 106-110: CREATE EXTENSION IF NOT EXISTS vector
CreateExtension ==
  /\ bpc = "pgvector"
  /\ \E created \in BOOLEAN :
       bpc' = IF created THEN "migrate" ELSE "exit 1: pgvector"
  /\ UNCHANGED <<MAX_RETRIES, RETRY_INTERVAL, retries, SECONDS, pgReady>>
  /\ BootOnly

(* ============================ specifications =========================== *)
Init == AuthInit /\ VecInit /\ ErrInit /\ ClientInit /\ HookInit /\ MetInit /\ DetectInit /\ BootInit

Next ==
  \/ \E a \in Addr \cup {""}, c \in Chain, n \in Nonces : RequestMessage(a, c, n)
  \/ \E r \in Slots, c \in Clients, m \in Messages, k \in Signers \cup {NoSignature} : VerifyStart(r, c, m, k)
  \/ \E r \in Slots : VerifySig(r)
  \/ \E r \in Slots : VerifyMark(r)
  \/ \E r \in Slots : VerifyRespond(r)
  \/ \E c \in Clients : SessionGet(c)
  \/ \E c \in Clients : DestroySession(c)
  \/ \E c \in Clients : SignOut(c)
  \/ \E c \in Clients : CookieExpire(c)
  \/ \E c \in Clients, bad \in {BadSeal, BadFormat} : Tamper(c, bad)
  \/ Tick

Spec == Init /\ [][Next]_vars

\* The same system when the verify requests do not overlap: a request is
\* sent only after the previous one was answered.
VerifyStartSeq(r, c, m, k) ==
  /\ \A q \in Slots : req[q].pc = "idle"
  /\ VerifyStart(r, c, m, k)

NextSeq ==
  \/ \E a \in Addr \cup {""}, c \in Chain, n \in Nonces : RequestMessage(a, c, n)
  \/ \E r \in Slots, c \in Clients, m \in Messages, k \in Signers \cup {NoSignature} : VerifyStartSeq(r, c, m, k)
  \/ \E r \in Slots : VerifySig(r)
  \/ \E r \in Slots : VerifyMark(r)
  \/ \E r \in Slots : VerifyRespond(r)
  \/ \E c \in Clients : SessionGet(c)
  \/ \E c \in Clients : DestroySession(c)
  \/ \E c \in Clients : SignOut(c)
  \/ \E c \in Clients : CookieExpire(c)
  \/ \E c \in Clients, bad \in {BadSeal, BadFormat} : Tamper(c, bad)
  \/ Tick

SpecSeq == Init /\ [][NextSeq]_vars

\* The vector helpers, one call at a time
NextVec ==
  \/ upsertIdentityEmbedding(1)
  \/ DC_upsertIdentityEmbedding(1)
  \/ findSimilarIdentities(1)
  \/ DC_findSimilarIdentities(1)
  \/ ExecuteUpsert(1)
  \/ ExecuteSelect(1)
  \/ Return

SpecVec == Init /\ [][NextVec]_vars

\* Upserts of concurrent callers
NextUpsert ==
  \/ \E s \in VSlots : upsertIdentityEmbedding(s)
  \/ \E s \in VSlots : DC_upsertIdentityEmbedding(s)
  \/ \E s \in VSlots : ExecuteUpsert(s)
  \/ Return

SpecUpsert == Init /\ [][NextUpsert]_vars

\* The handlers whose operation throws
NextErr ==
  \/ \E e \in Exceptions : MessageHandlerCatch(e)
  \/ \E e \in Exceptions : SessionHandlerCatch(e)
  \/ \E e \in Exceptions : SignOutHandlerCatch(e)
  \/ \E e \in Exceptions \cup {NoThrow} : metricsHandler(e)

SpecErr == Init /\ [][NextErr]_vars

\* The calls of one AuraClient
NextClient ==
  \/ ClientGetSession
  \/ ClientGetMessage
  \/ ClientSignOut
  \/ Elapse
  \/ ResponseArrives
  \/ FetchRejects
  \/ Abort

SpecClient == Init /\ [][NextClient]_vars

\* One mounted useAuraUser
NextHook ==
  \/ \E i \in SignIns : HookSignIn(i)
  \/ \E i \in SignIns : HookAccounts(i)
  \/ \E i \in SignIns : HookMessage(i)
  \/ \E i \in SignIns : HookSigned(i)
  \/ \E i \in SignIns : HookVerified(i)
  \/ HookTimer
  \/ HookSignOut
  \/ HookSignedOut
  \/ HookCheckSession
  \/ HookSessionChecked

SpecHook == Init /\ [][NextHook]_vars

\* The event loop runs the callback of a timer that is due.
SpecHookFair == SpecHook /\ WF_vars(HookTimer)

\* The tracked calls of one process
NextMetrics ==
  \/ \E s \in MSlots : trackVectorSearch(s)
  \/ \E s \in MSlots : VectorSearchSettles(s)
  \/ \E s \in MSlots : trackTrustComputation(s)
  \/ \E s \in MSlots : TrustComputationSettles(s)

SpecMetrics == Init /\ [][NextMetrics]_vars

\* One run of detect_secrets_in_history.sh
NextDetect ==
  \/ DetectStart
  \/ ParseArgument
  \/ RunGitleaks

SpecDetect == Init /\ [][NextDetect]_vars

\* One run of bootstrap-aura-idtoken.sh, up to the pgvector step
NextBootstrap ==
  \/ BootstrapStart
  \/ ComposeUp
  \/ PgIsReady
  \/ Sleep
  \/ AfterLoop
  \/ CreateExtension

SpecBootstrap == Init /\ [][NextBootstrap]_vars

(* ============================== properties ============================= *)
\* The last step answered a verify request.
Answered == out.op = "verify"
\* ... and the verifier had returned success / had failed for it.
Verified == Answered /\ out.req.result.success
Refused  == Answered /\ ~out.req.result.success

\* C1: a nonce never validates twice under concurrency -- of the verify
\* requests that reference one issued nonce, at most one returns success.
C1_NonceValidatesOnce == \A n \in Nonces : succ[n] <= 1

\* C2 (as claimed): the first verify call with an issued, rightly signed
\* message succeeds, and every later call with the same nonce fails.
C2_FirstAlwaysSucceeds ==
  /\ Answered /\ out.req.first => out.req.result.success
  /\ Answered /\ out.req.later => ~out.req.result.success
  /\ \A n \in Nonces : succ[n] <= 1

\* C2 (amended): over non-overlapping calls a nonce validates at most once;
\* the first verify call with an issued, rightly signed message succeeds if
\* its nonce is still stored and unused when it is looked up, and every call
\* that references a nonce that has already validated fails.
C2_VerifiesOnce ==
  /\ Answered /\ out.req.first /\ out.req.found = "unused" => out.req.result.success
  /\ Answered /\ out.req.later => ~out.req.result.success
  /\ \A n \in Nonces : succ[n] <= 1

\* C2 witness: a replay of a message whose nonce has validated is refused.
C2_Witness ==
  /\ Refused /\ out.req.later /\ out.req.found = "used"
  /\ Legit(out.req.msg, out.req.signer)
  /\ succ[out.req.msg.nonce] = 1

\* The signature of the answered request was made by another address than
\* the one the message claims.
WrongSigner ==
  /\ Answered /\ out.req.msg.form = "siwe"
  /\ out.req.signer \in Addr /\ out.req.signer # out.req.msg.address

SessionOf(c) == getSession(jar[c])
Identity(s) == [address |-> s.address, chainId |-> s.chainId]

\* C4: a session is authenticated only as the result of a successful
\* verification -- whenever a client's cookie carries, or GET
\* /api/auth/session reports, an authenticated session, a verify call of that
\* client returned success since the cookie was last cleared, and the session
\* holds the identity that call verified.
C4_AuthenticatedOnlyByVerify ==
  /\ \A c \in Clients :
       CanUnseal(jar[c]) /\ Truthy(SessionOf(c)) =>
         authed[c] # Nobody /\ Identity(SessionOf(c)) = authed[c]
  /\ out.op = "session" /\ out.resp.status = 200 /\ out.resp.body.isAuthenticated =>
       authed[out.client] # Nobody

\* C4 witness: a client's session is authenticated, after a verify request
\* of that client succeeded.
C4_Witness ==
  \E c \in Clients : authed[c] # Nobody /\ Truthy(SessionOf(c))

\* C5: a verify request whose nonce is absent from the Challenge Store is
\* answered 400 {success:false}; the handler stops before it reads or
\* updates the session, and the client's cookie is left as it was.
C5_AbsentNonceLeavesSession ==
  [][ out'.op = "verify" /\ out'.req.found = "absent" =>
        /\ out'.resp.status = 400
        /\ out'.resp.body.success = FALSE
        /\ out'.req.pc = "start"
        /\ jar' = jar /\ authed' = authed ]_vars

\* C5 witness: a well-formed, rightly signed message with a nonce the store
\* does not hold was refused while the client was signed in.
C5_Witness ==
  /\ Refused /\ out.req.found = "absent"
  /\ out.req.signer = out.req.msg.address
  /\ Truthy(SessionOf(out.client))

\* C6: every verification failure (malformed message, mismatch, unknown or
\* reused nonce, expired message) is answered with the same generic
\* "Verification failed" body, whatever its cause.
GenericFailure == [success |-> FALSE, error |-> ErrGeneric]
C6_GenericFailure ==
  Refused /\ ~BodyIncomplete(out.req.msg, out.req.signer) =>
    out.resp.body = GenericFailure

\* C7: a verification attempt made once the nonce's TTL has elapsed fails,
\* even if the nonce was never used; a nonce validates only when it is
\* looked up before its expiry.
C7_ExpiredNonceFails ==
  /\ Answered /\ out.req.late => ~out.req.result.success /\ out.resp.status = 400
  /\ Verified => ~out.req.late /\ out.req.found = "unused"

\* C7 witness: the issued message, rightly signed and never used, is refused
\* because its nonce has expired.
C7_Witness ==
  /\ Refused /\ out.req.late /\ out.req.first
  /\ ~nonceDB[out.req.msg.nonce].used
  /\ out.req.result.error = ErrNonce

\* C8: getSession after destroySession returns the default unauthenticated
\* shape, whatever the session was before.
C8_DestroyThenGetIsDefault ==
  out.op = "destroySession" /\ out.resp.status = 200 =>
    /\ CanUnseal(jar[out.client])
    /\ SessionOf(out.client) = DefaultData

\* C8 witness: an authenticated session was destroyed.
C8_Witness ==
  /\ out.op = "destroySession" /\ out.resp.status = 200
  /\ out.req.cookie.kind = "sealed" /\ Truthy(getSession(out.req.cookie))
  /\ SessionOf(out.client) = DefaultData

\* C9: a tampered or undecryptable cookie is treated as no session -- GET
\* /api/auth/session answers 200 with the default unauthenticated session.
C9_BadCookieIsNoSession ==
  out.op = "session" /\ jar[out.client].kind \in {"badSeal", "badFormat"} =>
    out.resp = RespSession(DefaultData)

\* C10: after verify has answered {success:true} for address A and chain C,
\* every GET /api/auth/session of that client answers {A, C, true} until the
\* cookie is cleared by sign-out, expires or is replaced.
C10_SessionAfterVerify ==
  out.op = "session" /\ authed[out.client] # Nobody =>
    out.resp = Resp(200, [address |-> authed[out.client].address,
                          chainId |-> authed[out.client].chainId,
                          isAuthenticated |-> TRUE])

\* C10 witness: a signed-in client read its session.
C10_Witness ==
  /\ out.op = "session" /\ authed[out.client] # Nobody
  /\ out.resp.status = 200 /\ out.resp.body.isAuthenticated
  /\ out.resp.body.address \in Addr /\ out.resp.body.chainId \in Chain

(* ------------------------------ sign-out ------------------------------- *)
\* C11: POST /api/auth/signout always answers 200 {success:true}, whether
\* or not the session was authenticated, and from then on GET
\* /api/auth/session answers isAuthenticated=false with address '' until a
\* verify request of the client succeeds again (the client keeping the
\* cookie the server left it with).
C11_SignOutAlwaysSucceeds ==
  /\ out.op = "signout" =>
       /\ out.resp = RespSignOut
       /\ SessionOf(out.client) = DefaultData
  /\ out.op = "session" /\ authed[out.client] = Nobody
       /\ jar[out.client].kind \in {"none", "sealed"} =>
       /\ out.resp.status = 200
       /\ out.resp.body.isAuthenticated = FALSE
       /\ out.resp.body.address = ""

(* -------------------------- input validation --------------------------- *)
\* C12: input-validation failures are answered 400 before any I/O -- a
\* message request without an address is answered 400 and neither issues a
\* message nor registers a nonce; a verify request without message or
\* without signature is answered 400 before the verifier is called: the
\* nonce is not looked up or consumed and the session is not touched.
C12_ValidationBeforeIO ==
  [][ /\ out'.op = "message" /\ out'.req.msg.address = "" =>
           /\ out'.resp = RespAddressRequired
           /\ nonceDB' = nonceDB /\ issued' = issued
      /\ out'.op = "verify"
           /\ (out'.req.msg.form = "empty" \/ out'.req.signer = NoSignature) =>
           /\ out'.resp = RespRequired
           /\ out'.req.pc = "start" /\ out'.req.found = "none"
           /\ nonceDB' = nonceDB /\ succ' = succ
           /\ jar' = jar /\ authed' = authed ]_vars

\* C12 witness: the issued message was submitted without a signature while
\* its nonce was stored and unused; it was answered 400 and the nonce is
\* still unused.
C12_Witness ==
  /\ out.op = "verify" /\ out.resp = RespRequired
  /\ out.req.signer = NoSignature /\ out.req.msg.form = "siwe"
  /\ out.req.msg.nonce \in Nonces
  /\ issued[out.req.msg.nonce] = out.req.msg
  /\ nonceDB[out.req.msg.nonce].stored /\ ~nonceDB[out.req.msg.nonce].used
  /\ succ[out.req.msg.nonce] = 0

(* ------------------------- vector similarity --------------------------- *)
\* The last call of the helpers that completed
Found == vout.call.fn = "find"
Upserted == vout.call.fn = "upsert"
\* An embedding the helpers must refuse
BadEmbedding(e) ==
  \/ Len(e) = 0
  \/ \E i \in 1..Len(e) : isNaN(e[i]) \/ e[i] = Infinity
  \/ Len(e) # Dim
\* A limit / threshold the helpers must refuse (one that is not passed is
\* replaced by its default)
BadLimit(k) == k # Undefined /\ (LeZero(k) \/ ~IsInteger(k))
BadThreshold(t) == t # Undefined /\ (LeZero(t) \/ isNaN(t) \/ ~isFinite(t))

\* C13: for every embedding that is empty, contains NaN or Infinity, or has
\* the wrong dimension, upsertIdentityEmbedding and findSimilarIdentities
\* throw before any database call is issued.
C13_BadEmbeddingRejected ==
  (Found \/ Upserted) /\ BadEmbedding(vout.call.embedding) =>
    vout.threw /\ vout.queries = 0

\* C14: for any table and any valid inputs, findSimilarIdentities returns
\* rows of the table with their distances, at most k of them, each at a
\* distance < threshold when a threshold is passed, in ascending order of
\* distance.
C14_FindIsBoundedAndOrdered ==
  /\ Found /\ ~BadEmbedding(vout.call.embedding)
  /\ ~BadLimit(vout.call.limit) /\ ~BadThreshold(vout.call.threshold)
  =>
  /\ ~vout.threw
  /\ vout.call.limit # Undefined => 2 * Len(vout.rows) <= vout.call.limit.h
  /\ vout.call.limit = Undefined => Len(vout.rows) <= DefaultLimit
  /\ \A i \in 1..Len(vout.rows) :
       /\ \E r \in table :
            /\ r.id = vout.rows[i].id
            /\ Dist2(r.embedding, vout.call.embedding) = vout.rows[i].distance
       /\ vout.call.threshold # Undefined =>
            vout.rows[i].distance < Sq(vout.call.threshold)
  /\ \A i, j \in 1..Len(vout.rows) :
       i < j => vout.rows[i].distance <= vout.rows[j].distance

\* C14 witness: with two rows in the table and a threshold that admits
\* both, a query for one row returned the nearer one.
C14_Witness ==
  /\ Found /\ ~vout.threw /\ vout.call.limit = Whole(1)
  /\ vout.call.threshold = Whole(2)
  /\ Cardinality(Below(Scored(table, vout.call.embedding), vout.call.threshold)) = 2
  /\ Len(vout.rows) = 1
  /\ \A r \in table : vout.rows[1].distance <= Dist2(r.embedding, vout.call.embedding)
  /\ \E r \in table : vout.rows[1].distance < Dist2(r.embedding, vout.call.embedding)

\* C15: findSimilarIdentities rejects a limit that is zero, negative or not
\* an integer, and a threshold that is zero, negative, NaN or infinite,
\* with an error and without issuing a database query.
C15_BadLimitRejected ==
  Found /\ (BadLimit(vout.call.limit) \/ BadThreshold(vout.call.threshold)) =>
    vout.threw /\ vout.queries = 0

\* The rows of a table that belong to a key
RowsOf(tbl, id) == {r \in tbl : r.id = id}

\* C16: identities are upserted by key with wholesale replacement -- the
\* table never holds two rows for one key; an upsert that completes,
\* concurrent upserts of the same key included, leaves exactly one row for
\* its key, holding exactly the embedding it was given, and leaves the rows
\* of the other keys as they were; an upsert that is refused changes
\* nothing.
C16_UpsertReplacesWholesale ==
  /\ \A id \in Ids : Cardinality(RowsOf(table, id)) <= 1
  /\ Upserted /\ ~vout.threw =>
       /\ RowsOf(table, vout.call.id) = {Row(vout.call.id, vout.call.embedding)}
       /\ \A id \in Ids \ {vout.call.id} : RowsOf(table, id) = RowsOf(vout.before, id)
  /\ Upserted /\ vout.threw => table = vout.before

\* C16 witness: an upsert replaced the embedding of an existing row while
\* another upsert of the same key, with another embedding, was in flight
\* and the other key had a row.
C16_Witness ==
  /\ Upserted /\ ~vout.threw
  /\ \E r \in RowsOf(vout.before, vout.call.id) : r.embedding # vout.call.embedding
  /\ \E s \in VSlots :
       /\ pending[s].fn = "upsert" /\ pending[s].id = vout.call.id
       /\ pending[s].embedding # vout.call.embedding
  /\ \E id \in Ids \ {vout.call.id} : RowsOf(table, id) # {}

(* --------------------------- server errors ----------------------------- *)
\* C17: whenever an operation inside an API handler, or inside the /metrics
\* handler, throws, the handler answers 500 with a generic body that does
\* not depend on the exception: a handler answers every exception with one
\* and the same body.
C17_GenericServerError ==
  /\ caught.error # NoThrow => caught.resp.status = 500
  /\ \A h \in Handlers : Cardinality(answered[h]) <= 1

(* ----------------------------- AuraClient ------------------------------ *)
\* C19: AuraClient.getSession never throws; it returns the session object
\* only when the server reports isAuthenticated=true (which the server does
\* only for a cookie that holds an authenticated session), and null when
\* the server reports an unauthenticated session and when the request fails.
C19_GetSessionOrNull ==
  cres.call.op = "getSession" =>
    /\ ~cres.rejected
    /\ cres.value # Null =>
         /\ cres.end.how = "response" /\ cres.end.resp.status = 200
         /\ cres.end.resp.body.isAuthenticated
         /\ cres.value = {cres.end.resp.body}
         /\ cres.call.cookie.kind = "sealed" /\ Truthy(cres.call.cookie.data)
    /\ cres.end.how # "response" \/ cres.end.resp.status # 200 => cres.value = Null
    /\ ~(cres.call.cookie.kind = "sealed" /\ Truthy(cres.call.cookie.data)) =>
         cres.value = Null

\* C19 witness: getSession has returned the session of a signed-in browser.
C19_Witness ==
  /\ cres.call.op = "getSession" /\ cres.value # Null
  /\ \E v \in cres.value : v.isAuthenticated /\ v.address \in Addr

\* C20: a request that has not completed within the configured timeout is
\* aborted and the call rejects -- no request is awaited beyond the
\* timeout, a getMessage that resolves had its response before the timeout
\* elapsed, and one whose response had not arrived by then rejects.
C20_TimeoutAborts ==
  /\ creq.elapsed <= Timeout
  /\ cres.call.op = "getMessage" /\ ~cres.rejected => cres.call.elapsed < Timeout
  /\ cres.call.op = "getMessage" /\ cres.call.elapsed >= Timeout =>
       cres.rejected /\ cres.end.how = "abort" /\ cres.error = AbortError

\* C20 witness: a getMessage for a valid address was aborted at the timeout.
C20_Witness ==
  /\ cres.call.op = "getMessage" /\ cres.call.address \in Addr
  /\ cres.call.elapsed = Timeout
  /\ cres.rejected /\ cres.end.how = "abort"

(* ---------------------------- useAuraUser ------------------------------ *)
\* A call of signIn has just failed.
SignInFailed == settled.call = "signIn" /\ settled.failed

\* C18: whichever step of signIn fails (no wallet provider, account request
\* rejected, message request failing, signing rejected, verification
\* answering success=false or failing), signIn resolves without throwing,
\* error is a non-empty string, state is 'error' and a reset is scheduled;
\* and a state 'error' always leads to the state 'disconnected'.
C18_SignInFailureNormalized ==
  /\ [](SignInFailed =>
         /\ ~settled.threw
         /\ error # Null /\ "" \notin error
         /\ state = "error"
         /\ timers > 0)
  /\ (state = "error" ~> state = "disconnected")

\* C18 witness: the verification of a signed message answered
\* success=false; the hook shows the server's error.
C18_Witness ==
  /\ SignInFailed /\ settled.step = "verify"
  /\ error = {"Invalid signature"} /\ state = "error" /\ timers > 0

\* The reset timer of a failed signIn fires in this step.
TimerFires == timers' = timers - 1

\* C21: once signIn has succeeded the state stays 'authenticated' until a
\* call of signOut (or a new call of signIn) changes it, and while a signIn
\* is in progress its state is kept: the delayed reset to 'disconnected'
\* scheduled by an earlier failed signIn changes neither.
C21_ResetNeverOverrides ==
  [][TimerFires /\ state \in {"authenticated", "connecting", "signing"}
       => state' = state]_vars

(* --------------------------- all-or-nothing ---------------------------- *)
\* C22: when POST /api/auth/verify answers anything but 200 {success:true},
\* the request has not marked the nonce of its message as used (its
\* verifier did not succeed), so the signed message can be verified again.
C22_VerifyAllOrNothing ==
  out.op = "verify" /\ out.resp.status # 200 => ~out.req.result.success

(* ------------------------ server confirmation -------------------------- *)
\* signIn call i has its answer from client.verify in this step.
VerifySettles(i) == calls[i] = "verify" /\ calls'[i] = "idle"
\* checkSession has its answer from client.getSession in this step.
GetSessionSettles ==
  calls["checkSession"] = "getSession" /\ calls'["checkSession"] = "idle"

\* C23: the hook becomes 'authenticated' only in the step in which
\* client.verify returns success with a session or client.getSession returns
\* a session, and the user is then that (non-null) session; no wallet-side
\* step makes the hook authenticated.
C23_AuthenticatedByServerOnly ==
  [][state # "authenticated" /\ state' = "authenticated"
       => /\ (\E i \in SignIns : VerifySettles(i)) \/ GetSessionSettles
          /\ user' # Null /\ user' \in Sessions]_vars

\* C23 witness: a signIn has gone through the wallet steps and
\* client.verify returned success with a session.
C23_Witness ==
  /\ settled = HookSettled("signIn", "verify", FALSE, FALSE)
  /\ state = "authenticated" /\ user = {AuthData("0xa1", 5)}

(* --------------------------- user and state ---------------------------- *)
\* C24: user is non-null exactly when state is 'authenticated'; stated
\* for the states the hook rests in: an authenticated hook has a user, and
\* a hook in state 'error' or 'disconnected' has none.
C24_UserIffAuthenticated ==
  /\ state = "authenticated" => user # Null
  /\ state \in {"error", "disconnected"} => user = Null

(* ------------------------------ signOut -------------------------------- *)
\* signOut has its answer from client.signOut in this step.
SignOutSettles == calls["signOut"] = "signOut" /\ calls'["signOut"] = "idle"

\* C25: when client.signOut rejects, signOut leaves user, state and error
\* as they are and resolves without throwing; when it resolves, user
\* becomes null, state 'disconnected' and error null.
C25_SignOutClearsOnSuccessOnly ==
  [][SignOutSettles =>
       /\ settled'.call = "signOut" /\ ~settled'.threw
       /\ IF settled'.failed
            THEN UNCHANGED <<user, state, error>>
            ELSE user' = Null /\ state' = "disconnected" /\ error' = Null]_vars

\* C25 witness: client.signOut rejected for an authenticated hook, which
\* is still authenticated.
C25_Witness ==
  /\ settled = HookSettled("signOut", "signOut", TRUE, FALSE)
  /\ state = "authenticated" /\ user # Null

(* --------------------------- session shape ----------------------------- *)
\* C26: whatever the cookie of the request holds, the session getSession
\* returns is either authenticated, and then it is the unsealed session
\* with its address and chainId as stored, or exactly the default shape
\* {isAuthenticated: false, address: '', chainId: 1}; and the session
\* endpoint answers with that session's fields.
C26_SessionShape ==
  cres.call.op = "getSession" /\ cres.end.how = "response"
    /\ CanUnseal(cres.call.cookie) =>
      LET cookie == cres.call.cookie
          session == getSession(cookie)
          body == cres.end.resp.body
      IN
      /\ IF cookie.kind = "sealed" /\ Truthy(cookie.data)
           THEN session = cookie.data
           ELSE session = DefaultData
      /\ body = [address |-> session.address, chainId |-> session.chainId,
                 isAuthenticated |-> session.isAuthenticated]

\* C26 witness: the session endpoint was asked with a cookie whose
\* session is not authenticated but still holds an address.
C26_Witness ==
  /\ cres.call.op = "getSession" /\ cres.end.how = "response"
  /\ cres.call.cookie = Sealed(StaleData)
  /\ cres.end.resp.body = DefaultData

(* ------------------------------ metrics -------------------------------- *)
\* A tracked vector search settles in this step.
SearchSettles == mdone'.op = "search"
\* The status the claim names for the search that has just settled
SettledStatus == IF mdone'.fn.rejected THEN "error" ELSE "success"

\* C27: each call of trackVectorSearch increments the search counter
\* exactly once and records exactly one latency observation, both under
\* status 'success' if the wrapped function resolved and 'error' if it
\* rejected, and the caller gets the function's result or error unchanged.
C27_SearchTrackedOnce ==
  [][SearchSettles =>
       /\ vectorSearchCounter' = [vectorSearchCounter EXCEPT ![SettledStatus] = @ + 1]
       /\ \A l \in Statuses :
            vectorSearchLatencyHistogram'[l].count =
              vectorSearchLatencyHistogram[l].count + (IF l = SettledStatus THEN 1 ELSE 0)
       /\ mdone'.got = mdone'.fn]_vars

\* C27 witness: a search whose function rejected was counted and
\* observed under 'error', and its error reached the caller.
C27_Witness ==
  /\ mdone.op = "search" /\ mdone.fn.rejected /\ mdone.got = mdone.fn
  /\ vectorSearchCounter["error"] = 1
  /\ vectorSearchLatencyHistogram["error"].count = 1

\* C28: for each computation type, the computation counter equals the
\* number of trackTrustComputation calls whose function resolved, the
\* duration histogram holds one observation per completed call, and a
\* rejection reaches the caller unchanged.
C28_ComputationsCounted ==
  /\ \A t \in ComputationTypes :
       /\ trustComputationCounter[t] = tracked.resolved[t]
       /\ trustComputationDurationHistogram[t].count = tracked.completed[t]
  /\ mdone.op = "compute" /\ mdone.fn.rejected =>
       mdone.got.rejected /\ mdone.got.error = mdone.fn.error

\* C28 witness: of two completed computations of one type one rejected.
C28_Witness ==
  /\ mdone.op = "compute" /\ mdone.fn.rejected
  /\ tracked.completed[mdone.type] = 2 /\ tracked.resolved[mdone.type] = 1
  /\ trustComputationCounter[mdone.type] = 1

(* ------------------------------ scripts -------------------------------- *)
\* The arguments of a command line that are neither --report nor the
\* path that follows it
RECURSIVE BranchArguments(_)
BranchArguments(args) ==
  IF args = <<>> THEN <<>>
  ELSE IF args[1] = "--report"
    THEN IF Len(args) < 2 THEN <<>> ELSE BranchArguments(Tail(Tail(args)))
  ELSE <<args[1]>> \o BranchArguments(Tail(args))

\* C29: when gitleaks is run, its log options are the branch argument of
\* the command line if there is one, whatever its place relative to
\* --report PATH, and --all only if there is none; and neither --report
\* nor its PATH is taken as the branch.
C29_ScansGivenBranch ==
  dpc = "gitleaks" =>
    LET given == BranchArguments(dargs) IN
    /\ LOG_OPTS = IF given # <<>> THEN given[1] ELSE AllBranches
    /\ BRANCH = IF given # <<>> THEN given[1] ELSE ""

\* The script has left the Postgres wait loop and gone on.
ReachedPgvector == bpc \in {"pgvector", "migrate", "exit 1: pgvector"}

\* C30: the Postgres wait loop waits at most MAX_RETRIES times; the script
\* goes on to the pgvector step only after a pg_isready check succeeded,
\* and it exits with the timeout error only when none did.
C30_WaitLoop ==
  /\ retries <= MAX_RETRIES /\ SECONDS <= MAX_RETRIES * RETRY_INTERVAL
  /\ ReachedPgvector => pgReady
  /\ bpc = "exit 1: timeout" => ~pgReady

====
